---- MODULE Spec2Model ----
(***************************************************************************)
(* A model of the auction-draft helper of src/main.py: the fuzzy matcher,  *)
(* the selection menu, the pricing engine, the team registry and the draft *)
(* loop with its undo history.                                             *)
(*                                                                         *)
(* Python strings are sequences of one-character strings, so that lower(), *)
(* upper(), strip(), isdigit(), `in` and find() are computed and not       *)
(* assumed.  The alphabet is Latin-1 and the characters named below; a     *)
(* control character other than \t, \n, \r and \f, the no-break space and  *)
(* a character beyond Latin-1 is written as its code point, "U+0663".      *)
(* None is the empty sequence where a value is optional and the value v    *)
(* is then <<v>>.                                                          *)
(***************************************************************************)
EXTENDS Integers, Sequences, FiniteSets, TLC

(***************************************************************************)
(* Strings                                                                 *)
(***************************************************************************)
UpperChars ==
    << "A", "B", "C", "D", "E", "F", "G", "H", "I", "J", "K", "L", "M",
       "N", "O", "P", "Q", "R", "S", "T", "U", "V", "W", "X", "Y", "Z",
       "À", "Á", "Â", "Ã", "Ä", "Å", "Æ", "Ç", "È", "É", "Ê", "Ë", "Ì",
       "Í", "Î", "Ï", "Ð", "Ñ", "Ò", "Ó", "Ô", "Õ", "Ö", "Ø", "Ù", "Ú",
       "Û", "Ü", "Ý", "Þ" >>

LowerChars ==
    << "a", "b", "c", "d", "e", "f", "g", "h", "i", "j", "k", "l", "m",
       "n", "o", "p", "q", "r", "s", "t", "u", "v", "w", "x", "y", "z",
       "à", "á", "â", "ã", "ä", "å", "æ", "ç", "è", "é", "ê", "ë", "ì",
       "í", "î", "ï", "ð", "ñ", "ò", "ó", "ô", "õ", "ö", "ø", "ù", "ú",
       "û", "ü", "ý", "þ" >>

DigitChars ==
    << "0", "1", "2", "3", "4", "5", "6", "7", "8", "9" >>

Range(s) == {s[i] : i \in 1..Len(s)}

IndexIn(c, s) == CHOOSE i \in 1..Len(s) : s[i] = c

\* The lower case of one character.  The capitals the alphabet holds beyond
\* Latin-1 are the upper cases of "ÿ" and of the micro sign.
ToLowerChar(c) ==
    IF c \in Range(UpperChars) THEN LowerChars[IndexIn(c, UpperChars)]
    ELSE IF c = "U+0178" THEN "ÿ"
    ELSE IF c = "U+039C" THEN "U+03BC"
    ELSE c

\* The upper case of one character, a string: that of the sharp s has two
\* characters, and those of "ÿ" and of the micro sign lie beyond Latin-1
ToUpperChar(c) ==
    IF c \in Range(LowerChars) THEN <<UpperChars[IndexIn(c, LowerChars)]>>
    ELSE IF c = "ß" THEN <<"S", "S">>
    ELSE IF c = "ÿ" THEN <<"U+0178">>
    ELSE IF c \in {"µ", "U+03BC"} THEN <<"U+039C">>
    ELSE <<c>>

\* str.lower()
Lower(s) == [i \in 1..Len(s) |-> ToLowerChar(s[i])]

\* str.upper()
RECURSIVE Upper(_)
Upper(s) ==
    IF s = <<>> THEN <<>> ELSE ToUpperChar(Head(s)) \o Upper(Tail(s))

\* str.isspace() of one character: what str.strip() removes
IsSpace(c) ==
    c \in { " ", "\t", "\n", "\r", "\f", "U+000B", "U+001C", "U+001D",
            "U+001E", "U+001F", "U+0085", "U+00A0", "U+2003", "U+3000" }

RECURSIVE LStrip(_)
LStrip(s) ==
    IF s # <<>> /\ IsSpace(Head(s)) THEN LStrip(Tail(s)) ELSE s

RECURSIVE RStrip(_)
RStrip(s) ==
    IF s # <<>> /\ IsSpace(s[Len(s)])
    THEN RStrip(SubSeq(s, 1, Len(s) - 1))
    ELSE s

\* str.strip()
Strip(s) == RStrip(LStrip(s))

\* s[:n] for n >= 0
Take(s, n) == SubSeq(s, 1, IF n < Len(s) THEN n ELSE Len(s))

\* sub occurs in s starting at the 0-based index i
OccursAt(sub, s, i) ==
    /\ i + Len(sub) <= Len(s)
    /\ \A k \in 1..Len(sub) : s[i + k] = sub[k]

\* Python's `sub in s`
Contains(sub, s) == \E i \in 0..Len(s) : OccursAt(sub, s, i)

\* str.find(sub) when sub occurs in s: the lowest 0-based index
Find(sub, s) ==
    CHOOSE i \in 0..Len(s) :
        /\ OccursAt(sub, s, i)
        /\ \A j \in 0..(i - 1) : ~OccursAt(sub, s, j)

Max(a, b) == IF a >= b THEN a ELSE b

Min(a, b) == IF a <= b THEN a ELSE b

(***************************************************************************)
(* difflib.SequenceMatcher(None, a, b).ratio() without a junk predicate    *)
(* and with autojunk, its default.  Indices are 0-based, ranges are        *)
(* half-open, as in difflib.                                               *)
(***************************************************************************)
\* __chain_b: when b has 200 elements or more, the elements that occur more
\* than len(b) // 100 + 1 times are popular and are left out of b2j
Popular(b) ==
    IF Len(b) >= 200
    THEN { c \in Range(b) :
            Cardinality({ j \in 1..Len(b) : b[j] = c }) > Len(b) \div 100 + 1 }
    ELSE {}

\* The length of the block of equal elements, none of b popular, that starts
\* at a[i] and b[j]
RECURSIVE CommonPrefixLen(_, _, _, _, _, _, _)
CommonPrefixLen(a, b, i, j, ahi, bhi, pop) ==
    IF i < ahi /\ j < bhi /\ a[i + 1] = b[j + 1] /\ b[j + 1] \notin pop
    THEN 1 + CommonPrefixLen(a, b, i + 1, j + 1, ahi, bhi, pop)
    ELSE 0

\* The size of the longest block that starts at each pair of equal elements
\* that b2j holds
BlockSizes(a, b, alo, ahi, blo, bhi, pop) ==
    [p \in {r \in (alo..(ahi - 1)) \X (blo..(bhi - 1)) :
                a[r[1] + 1] = b[r[2] + 1] /\ b[r[2] + 1] \notin pop}
        |-> CommonPrefixLen(a, b, p[1], p[2], ahi, bhi, pop)]

\* The first loop that extends the best block: to the left, by equal
\* elements, popular or not
RECURSIVE ExtendLeft(_, _, _, _, _)
ExtendLeft(a, b, alo, blo, m) ==
    IF m[1] > alo /\ m[2] > blo /\ a[m[1]] = b[m[2]]
    THEN ExtendLeft(a, b, alo, blo, <<m[1] - 1, m[2] - 1, m[3] + 1>>)
    ELSE m

\* The second loop: to the right
RECURSIVE ExtendRight(_, _, _, _, _)
ExtendRight(a, b, ahi, bhi, m) ==
    IF /\ m[1] + m[3] < ahi
       /\ m[2] + m[3] < bhi
       /\ a[m[1] + m[3] + 1] = b[m[2] + m[3] + 1]
    THEN ExtendRight(a, b, ahi, bhi, <<m[1], m[2], m[3] + 1>>)
    ELSE m

\* find_longest_match: the longest block a[i:i+k] = b[j:j+k] inside the
\* ranges without a popular element; of those the one that starts earliest
\* in a, and of those the one that starts earliest in b; <<alo, blo, 0>>
\* when there is none.  The block is then extended on both sides.
FindLongestMatch(a, b, alo, ahi, blo, bhi, pop) ==
    LET pick(size) ==
            IF DOMAIN size = {}
            THEN <<alo, blo, 0>>
            ELSE LET triple(best) == <<best[1], best[2], size[best]>>
                 IN  triple(CHOOSE p \in DOMAIN size : \A r \in DOMAIN size :
                                \/ size[p] > size[r]
                                \/ /\ size[p] = size[r]
                                   /\ \/ p[1] < r[1]
                                      \/ p[1] = r[1] /\ p[2] <= r[2])
    IN  ExtendRight(a, b, ahi, bhi,
            ExtendLeft(a, b, alo, blo,
                pick(BlockSizes(a, b, alo, ahi, blo, bhi, pop))))

\* The sum of the sizes of get_matching_blocks()
RECURSIVE MatchTotal(_, _, _, _, _, _, _)
MatchTotal(a, b, alo, ahi, blo, bhi, pop) ==
    LET total(i, j, k) ==
            IF k = 0
            THEN 0
            ELSE k
                 + (IF alo < i /\ blo < j
                    THEN MatchTotal(a, b, alo, i, blo, j, pop) ELSE 0)
                 + (IF i + k < ahi /\ j + k < bhi
                    THEN MatchTotal(a, b, i + k, ahi, j + k, bhi, pop) ELSE 0)
        split(m) == total(m[1], m[2], m[3])
    IN  split(FindLongestMatch(a, b, alo, ahi, blo, bhi, pop))

\* int(2.0 * m / t * 100) in doubles: the exact percentage truncated, except
\* at 0.29, 0.57 and 0.58, where the double product falls just below the
\* integer
PercentOf(m, t) ==
    IF 200 * m = ((200 * m) \div t) * t /\ (200 * m) \div t \in {29, 57, 58}
    THEN ((200 * m) \div t) - 1
    ELSE (200 * m) \div t

\* int(SequenceMatcher(None, a, b).ratio() * 100)
RatioPercent(a, b) ==
    IF Len(a) + Len(b) = 0
    THEN 100
    ELSE PercentOf(MatchTotal(a, b, 0, Len(a), 0, Len(b), Popular(b)),
                   Len(a) + Len(b))

(***************************************************************************)
(* fuzzy_matches                                                           *)
(***************************************************************************)
SubstringBase == 200

\* The score of the lower-cased choice cl for the lower-cased, stripped query
ScoreLower(q, cl) ==
    IF Contains(q, cl)
    THEN SubstringBase - Find(q, cl)
    ELSE RatioPercent(q, cl)

Score(q, ch) == ScoreLower(q, Lower(ch))

\* The (score, choice) pairs of all choices, in input order
AllScored(q, choices) ==
    [i \in 1..Len(choices) |-> <<Score(q, choices[i]), choices[i]>>]

\* `if score >= min_ratio: scored.append(...)`
RECURSIVE KeepScored(_, _)
KeepScored(pairs, min_ratio) ==
    IF pairs = <<>>
    THEN <<>>
    ELSE (IF Head(pairs)[1] >= min_ratio THEN <<Head(pairs)>> ELSE <<>>)
         \o KeepScored(Tail(pairs), min_ratio)

Scored(q, choices, min_ratio) == KeepScored(AllScored(q, choices), min_ratio)

\* A variant of the sort that puts a pair before the pairs of equal score
RECURSIVE InsertDescBeforeEqual(_, _)
InsertDescBeforeEqual(x, sorted) ==
    IF sorted = <<>>
    THEN <<x>>
    ELSE IF Head(sorted)[1] > x[1]
         THEN <<Head(sorted)>> \o InsertDescBeforeEqual(x, Tail(sorted))
         ELSE <<x>> \o sorted

\* list.sort(key=score, reverse=True): stable, so equal scores keep their order
RECURSIVE InsertDesc(_, _)
InsertDesc(x, sorted) ==
    IF sorted = <<>>
    THEN <<x>>
    ELSE IF Head(sorted)[1] >= x[1]
         THEN <<Head(sorted)>> \o InsertDesc(x, Tail(sorted))
         ELSE <<x>> \o sorted

RECURSIVE SortDesc(_)
SortDesc(s) ==
    IF s = <<>>
    THEN <<>>
    ELSE InsertDesc(s[Len(s)], SortDesc(SubSeq(s, 1, Len(s) - 1)))

\* [c for _, c in scored]
Seconds(pairs) == [i \in 1..Len(pairs) |-> pairs[i][2]]

Ranked(q, choices, min_ratio) ==
    Seconds(SortDesc(Scored(q, choices, min_ratio)))

\* query.strip().lower()
Normal(query) == Lower(Strip(query))

fuzzy_matches(query, choices, limit, min_ratio) ==
    IF Normal(query) = <<>>
    THEN Take(choices, limit)
    ELSE Take(Ranked(Normal(query), choices, min_ratio), limit)

(***************************************************************************)
(* Data model.  A catalog row is a record [name, position, salary, tier,   *)
(* proteam]; salary and tier are <<>> when the cell is empty (NaN).  A     *)
(* Team is a record [name, budget, spent, roster]; the registry `teams` is *)
(* a dict, modelled as the sequence of its values in insertion order.  A   *)
(* roster is a function from the position strings it holds to counts.      *)
(***************************************************************************)
DEFAULT_BUDGET == 200

MY_TEAM_NAME == <<"m", "e">>

QB == <<"Q", "B">>

RB == <<"R", "B">>

WR == <<"W", "R">>

TE == <<"T", "E">>

DST == <<"D", "/", "S", "T">>

KICKER == <<"K">>

FLEX == <<"F", "L", "E", "X">>

\* Team(name=...)
Team(name) ==
    [name |-> name, budget |-> DEFAULT_BUDGET, spent |-> 0, roster |-> <<>>]

\* Team.remaining
Remaining(t) == t.budget - t.spent

\* dict.get(key, 0)
DictGet(d, key) == IF key \in DOMAIN d THEN d[key] ELSE 0

\* list(teams.keys())
TeamNames(ts) == [i \in 1..Len(ts) |-> ts[i].name]

\* `name in teams`
HasTeam(ts, name) == \E i \in 1..Len(ts) : ts[i].name = name

TeamIndex(ts, name) == CHOOSE i \in 1..Len(ts) : ts[i].name = name

\* teams[name]
TeamOf(ts, name) == ts[TeamIndex(ts, name)]

\* A variant of the name list of prompt_player that keeps the drafted names
AllNames(rows, drafted) == [i \in 1..Len(rows) |-> rows[i].name]

\* df["name"].astype(str).tolist() without the drafted names
RECURSIVE UndraftedNames(_, _)
UndraftedNames(rows, drafted) ==
    IF rows = <<>>
    THEN <<>>
    ELSE (IF Head(rows).name \notin drafted THEN <<Head(rows).name>> ELSE <<>>)
         \o UndraftedNames(Tail(rows), drafted)

\* df[df["name"] == n].iloc[0]
RowOf(df, n) ==
    df[CHOOSE i \in 1..Len(df) :
            /\ df[i].name = n
            /\ \A j \in 1..(i - 1) : df[j].name # n]

\* df["position"].str.upper().value_counts().to_dict()
PosInitialCounts(df) ==
    [p \in {Upper(df[i].position) : i \in 1..Len(df)} |->
        Cardinality({i \in 1..Len(df) : Upper(df[i].position) = p})]

(***************************************************************************)
(* Natural numbers of any size, as the sequence of their digits to the     *)
(* base 2^15, the lowest first and the highest not 0; the empty sequence   *)
(* is 0.  They carry the 53-bit significands of the engine's floats.       *)
(***************************************************************************)
LimbBase == 2^15

RECURSIVE BFromInt(_)
BFromInt(n) ==
    IF n = 0 THEN <<>> ELSE <<n % LimbBase>> \o BFromInt(n \div LimbBase)

RECURSIVE BToInt(_)
BToInt(a) == IF a = <<>> THEN 0 ELSE Head(a) + LimbBase * BToInt(Tail(a))

RECURSIVE BTrim(_)
BTrim(a) ==
    IF a # <<>> /\ a[Len(a)] = 0 THEN BTrim(SubSeq(a, 1, Len(a) - 1)) ELSE a

Limb(a, i) == IF i <= Len(a) THEN a[i] ELSE 0

RECURSIVE BAddFrom(_, _, _, _)
BAddFrom(a, b, i, carry) ==
    IF i > Len(a) /\ i > Len(b)
    THEN IF carry = 0 THEN <<>> ELSE <<carry>>
    ELSE <<(Limb(a, i) + Limb(b, i) + carry) % LimbBase>>
         \o BAddFrom(a, b, i + 1,
                     (Limb(a, i) + Limb(b, i) + carry) \div LimbBase)

BAdd(a, b) == BAddFrom(a, b, 1, 0)

\* a - b for a >= b
RECURSIVE BSubFrom(_, _, _, _)
BSubFrom(a, b, i, borrow) ==
    IF i > Len(a)
    THEN <<>>
    ELSE <<(LimbBase + Limb(a, i) - Limb(b, i) - borrow) % LimbBase>>
         \o BSubFrom(a, b, i + 1,
                     IF Limb(a, i) - Limb(b, i) - borrow < 0 THEN 1 ELSE 0)

BSub(a, b) == BTrim(BSubFrom(a, b, 1, 0))

\* a * d for one digit d > 0
RECURSIVE BMulLimbFrom(_, _, _, _)
BMulLimbFrom(a, d, i, carry) ==
    IF i > Len(a)
    THEN IF carry = 0 THEN <<>> ELSE <<carry>>
    ELSE <<(a[i] * d + carry) % LimbBase>>
         \o BMulLimbFrom(a, d, i + 1, (a[i] * d + carry) \div LimbBase)

BMulLimb(a, d) == IF d = 0 THEN <<>> ELSE BMulLimbFrom(a, d, 1, 0)

BTimesBase(a) == IF a = <<>> THEN <<>> ELSE <<0>> \o a

RECURSIVE BMul(_, _)
BMul(a, b) ==
    IF b = <<>>
    THEN <<>>
    ELSE BAdd(BMulLimb(a, Head(b)), BTimesBase(BMul(a, Tail(b))))

RECURSIVE BLessAt(_, _, _)
BLessAt(a, b, i) ==
    IF i = 0 THEN FALSE
    ELSE IF a[i] # b[i] THEN a[i] < b[i]
    ELSE BLessAt(a, b, i - 1)

BLess(a, b) ==
    IF Len(a) # Len(b) THEN Len(a) < Len(b) ELSE BLessAt(a, b, Len(a))

RECURSIVE BitLenInt(_)
BitLenInt(n) == IF n = 0 THEN 0 ELSE 1 + BitLenInt(n \div 2)

\* int.bit_length()
BitLen(a) ==
    IF a = <<>> THEN 0 ELSE 15 * (Len(a) - 1) + BitLenInt(a[Len(a)])

\* a << k
BShl(a, k) ==
    IF a = <<>>
    THEN <<>>
    ELSE [i \in 1..(k \div 15) |-> 0] \o BMulLimb(a, 2^(k % 15))

BShrBits(a, bits) ==
    BTrim([i \in 1..Len(a) |->
            (a[i] \div 2^bits) + (Limb(a, i + 1) % 2^bits) * 2^(15 - bits)])

\* a >> k
BShr(a, k) ==
    IF k \div 15 >= Len(a)
    THEN <<>>
    ELSE BShrBits(SubSeq(a, (k \div 15) + 1, Len(a)), k % 15)

\* (a >> i) & 1
BBit(a, i) == (Limb(a, (i \div 15) + 1) \div 2^(i % 15)) % 2

\* a & ((1 << k) - 1) = 0
BLowZero(a, k) ==
    /\ \A j \in 1..(k \div 15) : Limb(a, j) = 0
    /\ Limb(a, (k \div 15) + 1) % 2^(k % 15) = 0

(***************************************************************************)
(* The engine's floats: IEEE 754 doubles that are not negative, as records *)
(* [m, e] that stand for m * 2^e, m a natural number of exactly 53 bits;   *)
(* 0.0 is [m |-> <<>>, e |-> 0].  Every operation gives the double nearest *)
(* to the exact result, a tie going to the even significand, as the        *)
(* hardware does.  The engine's values are far from overflow and from the  *)
(* subnormal numbers.                                                      *)
(***************************************************************************)
DZero == [m |-> <<>>, e |-> 0]

\* The nearest double is above n >> k: the first bit dropped is 1, and a
\* lower bit is 1 (inexact tells that there are such bits below n) or the
\* bit kept last is 1
RoundsUp(n, k, inexact) ==
    /\ BBit(n, k - 1) = 1
    /\ \/ ~BLowZero(n, k - 1)
       \/ inexact
       \/ BBit(n, k) = 1

\* The significand has grown to 2^53
Renormal(m, e) ==
    IF BitLen(m) > 53 THEN [m |-> BShr(m, 1), e |-> e + 1]
    ELSE [m |-> m, e |-> e]

Narrow(n, e, k, inexact) ==
    IF RoundsUp(n, k, inexact)
    THEN Renormal(BAdd(BShr(n, k), <<1>>), e + k)
    ELSE [m |-> BShr(n, k), e |-> e + k]

\* The double nearest to n * 2^e, n > 0
DNearest(n, e, inexact) ==
    IF BitLen(n) <= 53
    THEN [m |-> BShl(n, 53 - BitLen(n)), e |-> e - (53 - BitLen(n))]
    ELSE Narrow(n, e, BitLen(n) - 53, inexact)

\* float(n) for an int n >= 0
DInt(n) == IF n = 0 THEN DZero ELSE DNearest(BFromInt(n), 0, FALSE)

DOne == DInt(1)

\* The remainder of r * 2^(15 * n) by q, for r < q < 2^16
RECURSIVE QuotientRest(_, _, _)
QuotientRest(r, q, n) ==
    IF n = 0 THEN r ELSE QuotientRest((r * LimbBase) % q, q, n - 1)

\* The first n digits of r / q after the point, the lowest first, for
\* r < q < 2^16
RECURSIVE QuotientLimbs(_, _, _)
QuotientLimbs(r, q, n) ==
    IF n = 0
    THEN <<>>
    ELSE QuotientLimbs((r * LimbBase) % q, q, n - 1)
         \o <<(r * LimbBase) \div q>>

\* float(p) / float(q) for ints p >= 0 and 0 < q < 2^16, which is also
\* the double a decimal literal p/q denotes: the first 90 bits of the
\* quotient after the point, rounded
DRatio(p, q) ==
    IF p = 0
    THEN DZero
    ELSE DNearest(BTrim(QuotientLimbs(p % q, q, 6) \o BFromInt(p \div q)),
                  -90, QuotientRest(p % q, q, 6) # 0)

\* x * y
DMul(x, y) ==
    IF x.m = <<>> \/ y.m = <<>>
    THEN DZero
    ELSE DNearest(BMul(x.m, y.m), x.e + y.e, FALSE)

\* x + y
DAdd(x, y) ==
    IF x.m = <<>> THEN y
    ELSE IF y.m = <<>> THEN x
    ELSE DNearest(BAdd(BShl(x.m, x.e - Min(x.e, y.e)),
                       BShl(y.m, y.e - Min(x.e, y.e))),
                  Min(x.e, y.e), FALSE)

\* x < y
DLess(x, y) ==
    IF y.m = <<>> THEN FALSE
    ELSE IF x.m = <<>> THEN TRUE
    ELSE x.e < y.e \/ (x.e = y.e /\ BLess(x.m, y.m))

\* max(0.0, x - y)
DMonus(x, y) ==
    IF y.m = <<>> THEN x
    ELSE IF ~DLess(y, x) THEN DZero
    ELSE DNearest(BSub(BShl(x.m, x.e - Min(x.e, y.e)),
                       BShl(y.m, y.e - Min(x.e, y.e))),
                  Min(x.e, y.e), FALSE)

\* min(x, y)
DMin(x, y) == IF DLess(y, x) THEN y ELSE x

\* max(x, y)
DMax(x, y) == IF DLess(x, y) THEN y ELSE x

\* round(x): the nearest int, a tie going to the even one
DRound(x) ==
    IF x.m = <<>> THEN 0
    ELSE IF x.e >= 0 THEN BToInt(BShl(x.m, x.e))
    ELSE IF -x.e > 54 THEN 0
    ELSE BToInt(BShr(x.m, -x.e))
         + (IF RoundsUp(x.m, -x.e, FALSE) THEN 1 ELSE 0)

CAP_MIN == DRatio(6, 10)

CAP_MAX == DRatio(13, 10)

NEED_MULT_HIGH == DRatio(110, 100)

NEED_MULT_MED == DRatio(102, 100)

NEED_MULT_LOW == DRatio(85, 100)

SUPPLY_WEIGHT == DRatio(25, 100)

SUPPLY_WEIGHT_MED == DRatio(10, 100)

TIER_GAP_WEIGHT == DRatio(5, 10)

INFLATION_MIN == DRatio(85, 100)

INFLATION_MAX == DRatio(115, 100)

_clamp(v, lo, hi) == DMax(lo, DMin(hi, v))

(***************************************************************************)
(* Pricing engine                                                          *)
(***************************************************************************)
_requirements ==
    (QB :> 1) @@ (RB :> 2) @@ (WR :> 2) @@ (TE :> 1) @@ (DST :> 1)
    @@ (KICKER :> 1) @@ (FLEX :> 1)

\* max(0, have - req.get(pos, 0)) for one of RB, WR, TE
Overflow(roster, req, pos) ==
    Max(0, DictGet(roster, pos) - DictGet(req, pos))

_flex_used(roster, req) ==
    Min(DictGet(req, FLEX),
        Overflow(roster, req, RB) + Overflow(roster, req, WR)
        + Overflow(roster, req, TE))

\* _need_level after `pos = pos.upper()`
NeedLevelAt(roster, pos, req) ==
    IF Max(0, DictGet(req, pos) - DictGet(roster, pos)) > 0 THEN "high"
    ELSE IF /\ pos \in {RB, WR, TE}
            /\ DictGet(req, FLEX) - _flex_used(roster, req) > 0 THEN "med"
    ELSE "low"

_need_level(team, pos, req) == NeedLevelAt(team.roster, Upper(pos), req)

\* The undrafted rows, in frame order
RECURSIVE Undrafted(_, _)
Undrafted(rows, drafted) ==
    IF rows = <<>>
    THEN <<>>
    ELSE (IF Head(rows).name \notin drafted THEN <<Head(rows)>> ELSE <<>>)
         \o Undrafted(Tail(rows), drafted)

\* The rows whose upper-cased position is pos, in frame order
RECURSIVE AtPosition(_, _)
AtPosition(rows, pos) ==
    IF rows = <<>>
    THEN <<>>
    ELSE (IF Upper(Head(rows).position) = pos THEN <<Head(rows)>> ELSE <<>>)
         \o AtPosition(Tail(rows), pos)

\* The rows whose tier cell equals tier_value, in frame order
RECURSIVE InTier(_, _)
InTier(rows, tier_value) ==
    IF rows = <<>>
    THEN <<>>
    ELSE (IF Head(rows).tier = tier_value THEN <<Head(rows)>> ELSE <<>>)
         \o InTier(Tail(rows), tier_value)

\* Rows at position pos (compared upper-cased) whose name is not drafted
RemainingAt(df, drafted, pos) == AtPosition(Undrafted(df, drafted), Upper(pos))

\* Series.sum(): empty cells are skipped
RECURSIVE SalarySum(_)
SalarySum(rows) ==
    IF rows = <<>>
    THEN 0
    ELSE (IF Head(rows).salary = <<>> THEN 0 ELSE Head(rows).salary[1])
         + SalarySum(Tail(rows))

\* sum(t.remaining for t in teams.values())
RECURSIVE RemainingSum(_)
RemainingSum(ts) ==
    IF ts = <<>> THEN 0 ELSE Remaining(Head(ts)) + RemainingSum(Tail(ts))

InflationOf(ts, remaining_value) ==
    IF remaining_value <= 0 \/ ts = <<>>
    THEN DOne
    ELSE IF RemainingSum(ts) < 0
    \* a negative quotient is below every bound: max(lo, min(hi, raw)) = lo
    THEN INFLATION_MIN
    ELSE _clamp(DRatio(RemainingSum(ts), remaining_value),
                INFLATION_MIN, INFLATION_MAX)

_inflation_factor(ts, df, drafted) ==
    InflationOf(ts, SalarySum(Undrafted(df, drafted)))

\* max(0.0, 1.0 - remaining_cnt / init_cnt)
Scarcity(remaining_cnt, init_cnt) ==
    DMonus(DOne, DRatio(remaining_cnt, init_cnt))

SupplyOf(remaining_cnt, init_cnt, need_level) ==
    IF init_cnt <= 0 THEN DOne
    ELSE IF need_level = "high"
    THEN DAdd(DOne, DMul(Scarcity(remaining_cnt, init_cnt), SUPPLY_WEIGHT))
    ELSE IF need_level = "med"
    THEN DAdd(DOne, DMul(Scarcity(remaining_cnt, init_cnt),
                         SUPPLY_WEIGHT_MED))
    ELSE DOne

_supply_factor(df, drafted, pos, need_level, counts) ==
    SupplyOf(Len(RemainingAt(df, drafted, pos)), DictGet(counts, Upper(pos)),
             need_level)

\* Salaries descending, empty cells last
SalaryOrdered(rows) ==
    \A i \in 1..(Len(rows) - 1) :
        \/ rows[i + 1].salary = <<>>
        \/ /\ rows[i].salary # <<>>
           /\ rows[i].salary[1] >= rows[i + 1].salary[1]

\* DataFrame.sort_values("salary", ascending=False) with the default
\* kind="quicksort", which is not stable: every arrangement of the rows
\* with the salaries descending and the empty cells last is an outcome,
\* the order of equal salaries being the sorting routine's choice
SortOutcomes(rows) ==
    { sorted \in { [i \in 1..Len(rows) |-> rows[p[i]]] :
                      p \in Permutations(1..Len(rows)) } :
        SalaryOrdered(sorted) }

\* The outcomes of the sort of the remaining pool of _tier_gap_factor
SortedRemaining(df, drafted, pos) ==
    SortOutcomes(RemainingAt(df, drafted, pos))

\* names.index(player_name) + 1, and 0 where it raises ValueError
RECURSIVE IndexOfName(_, _)
IndexOfName(rows, player_name) ==
    IF rows = <<>> THEN 0
    ELSE IF Head(rows).name = player_name THEN 1
    ELSE IF IndexOfName(Tail(rows), player_name) = 0 THEN 0
    ELSE 1 + IndexOfName(Tail(rows), player_name)

\* int(remaining.iloc[idx + 1]["salary"]) raises ValueError on an empty cell
NextHasNoSalary(remaining, at) ==
    /\ at > 0
    /\ at < Len(remaining)
    /\ remaining[at + 1].salary = <<>>

\* remaining is the outcome of the sort
TierGapRaises(remaining, player_name) ==
    NextHasNoSalary(remaining, IndexOfName(remaining, player_name))

\* max(0.0, (cur - nxt) / float(cur))
GapRatio(cur, nxt) ==
    IF cur - nxt <= 0 THEN DZero ELSE DRatio(cur - nxt, cur)

GapAt(remaining, at, cur) ==
    IF at = 0 \/ at >= Len(remaining)
    THEN DOne
    ELSE DAdd(DOne, DMin(DRatio(2, 10),
                         DMul(GapRatio(cur, remaining[at + 1].salary[1]),
                              TIER_GAP_WEIGHT)))

GapOf(remaining, player_salary, player_name) ==
    GapAt(remaining, IndexOfName(remaining, player_name),
          Max(1, player_salary))

\* remaining is the outcome of the sort, one of
\* SortedRemaining(df, drafted, pos)
_tier_gap_factor(df, drafted, pos, player_salary, player_name, remaining) ==
    GapOf(remaining, player_salary, player_name)

TierScarcityOf(remaining_in_tier, need_level) ==
    IF need_level = "high" /\ remaining_in_tier <= 1 THEN DRatio(110, 100)
    ELSE IF need_level = "high" /\ remaining_in_tier <= 3
    THEN DRatio(105, 100)
    ELSE IF need_level = "med" /\ remaining_in_tier <= 1
    THEN DRatio(105, 100)
    ELSE DOne

_tier_scarcity_factor(df, drafted, pos, tier_value, need_level) ==
    IF tier_value = <<>>
    THEN DOne
    ELSE TierScarcityOf(Len(InTier(RemainingAt(df, drafted, pos), tier_value)),
                        need_level)

\* teams after adjusted_salary has made sure that my team exists
EnsureMyTeam(ts) ==
    IF HasTeam(ts, MY_TEAM_NAME) THEN ts ELSE Append(ts, Team(MY_TEAM_NAME))

NeedMult(level) ==
    IF level = "high" THEN NEED_MULT_HIGH
    ELSE IF level = "med" THEN NEED_MULT_MED
    ELSE NEED_MULT_LOW

\* The need level adjusted_salary computes: that of my team, once ensured
MyNeedLevel(row, ts) ==
    _need_level(TeamOf(EnsureMyTeam(ts), MY_TEAM_NAME), Upper(row.position),
                _requirements)

\* The product of the five factors: the inflation factor reads the registry
\* as it is on entry, the others the need level of my team; remaining is
\* the outcome of the sort in _tier_gap_factor
FactorsAt(row, df, ts, drafted, counts, level, remaining) ==
    DMul(DMul(DMul(DMul(DMul(DOne, _inflation_factor(ts, df, drafted)),
                        NeedMult(level)),
                   _supply_factor(df, drafted, Upper(row.position), level,
                                  counts)),
              _tier_gap_factor(df, drafted, Upper(row.position),
                               row.salary[1], row.name, remaining)),
         _tier_scarcity_factor(df, drafted, Upper(row.position), row.tier,
                               level))

FactorProduct(row, df, ts, drafted, counts, remaining) ==
    FactorsAt(row, df, ts, drafted, counts, MyNeedLevel(row, ts), remaining)

\* A variant of adjusted_salary without the final clamp
NoFinalClamp(mult) == mult

\* mult = _clamp(mult, CAP_MIN, CAP_MAX)
FinalClamp(mult) == _clamp(mult, CAP_MIN, CAP_MAX)

adjusted_salary(row, df, ts, drafted, counts, remaining) ==
    DRound(DMul(DInt(row.salary[1]),
                FinalClamp(FactorProduct(row, df, ts, drafted, counts,
                                         remaining))))

(***************************************************************************)
(* Line parsing                                                            *)
(***************************************************************************)
\* Decimal digits of other scripts, which str.isdigit() accepts and int()
\* reads as it reads "0" to "9": Arabic-Indic, Devanagari and fullwidth
ArabicIndicDigits ==
    << "U+0660", "U+0661", "U+0662", "U+0663", "U+0664",
       "U+0665", "U+0666", "U+0667", "U+0668", "U+0669" >>

DevanagariDigits ==
    << "U+0966", "U+0967", "U+0968", "U+0969", "U+096A",
       "U+096B", "U+096C", "U+096D", "U+096E", "U+096F" >>

FullwidthDigits ==
    << "U+FF10", "U+FF11", "U+FF12", "U+FF13", "U+FF14",
       "U+FF15", "U+FF16", "U+FF17", "U+FF18", "U+FF19" >>

DecimalScripts ==
    {DigitChars, ArabicIndicDigits, DevanagariDigits, FullwidthDigits}

\* str.isdecimal() of one character
IsDecimalChar(c) == \E script \in DecimalScripts : c \in Range(script)

\* The value int() gives the decimal digit c
DigitValue(c) ==
    IndexIn(c, CHOOSE script \in DecimalScripts : c \in Range(script)) - 1

\* Characters for which str.isdigit() is true but which int() rejects: the
\* superscript digits of Latin-1 and beyond, and a circled digit
SuperscriptDigits ==
    {"²", "³", "¹", "U+2070", "U+2074", "U+2075", "U+2460"}

\* str.isdigit()
IsDigitStr(s) ==
    /\ s # <<>>
    /\ \A i \in 1..Len(s) :
        IsDecimalChar(s[i]) \/ s[i] \in SuperscriptDigits

\* sys.int_info.default_max_str_digits: int() reads no string of more digits
MAX_STR_DIGITS == 4300

\* int(s) raises ValueError, for a string that isdigit() accepts: a digit is
\* not decimal, or there are more digits than the interpreter converts
IntRaises(s) ==
    \/ \E i \in 1..Len(s) : ~IsDecimalChar(s[i])
    \/ Len(s) > MAX_STR_DIGITS

\* int(s) for a string of decimal digits
RECURSIVE ParseInt(_)
ParseInt(s) ==
    IF s = <<>>
    THEN 0
    ELSE 10 * ParseInt(SubSeq(s, 1, Len(s) - 1)) + DigitValue(s[Len(s)])

QuitWords ==
    {<<"q">>, <<"q", "u", "i", "t">>, <<"e", "x", "i", "t">>}

TeamsWords ==
    {<<"t", "e", "a", "m", "s">>, <<":", "t", "e", "a", "m", "s">>}

UndoWords ==
    {<<"u", "n", "d", "o">>, <<":", "u", "n", "d", "o">>}

(***************************************************************************)
(* Menu labels                                                             *)
(***************************************************************************)
LabelWidth == 28

\* The one-character string U+2026 (horizontal ellipsis), written here with
\* a character of the module's character set that no name contains
Ellipsis == "~"

TeamWidth == 4

\* str.ljust(width)
Ljust(s, width) ==
    IF Len(s) >= width
    THEN s
    ELSE s \o [i \in 1..(width - Len(s)) |-> " "]

_fmt_player_label(name, team, pos) ==
    LET clipped == IF Len(name) > LabelWidth
                   THEN SubSeq(name, 1, LabelWidth - 1) \o <<Ellipsis>>
                   ELSE name
    IN  Ljust(clipped, LabelWidth) \o <<" ", " ">>
        \o Ljust(team, TeamWidth) \o <<" ", " ">> \o pos

\* The label of the match n, built from its first row in the frame
LabelOfRow(n, row) ==
    _fmt_player_label(n, Upper(row.proteam), row.position)

\* The (label, value) options prompt_player builds for its matches
PlayerOptions(df, matches) ==
    [i \in 1..Len(matches) |->
        <<LabelOfRow(matches[i], RowOf(df, matches[i])), matches[i]>>]

\* [lbl for (lbl, _val) in options]
Firsts(kv) == [i \in 1..Len(kv) |-> kv[i][1]]

\* curses_select_kv: the value of the first option whose label was chosen
RECURSIVE ValueOfLabel(_, _)
ValueOfLabel(kv, chosen) ==
    IF kv = <<>> THEN <<>>
    ELSE IF Head(kv)[1] = chosen THEN <<Head(kv)[2]>>
    ELSE ValueOfLabel(Tail(kv), chosen)

\* f"Create new team '{raw}'"
CreateLabel(raw) ==
    <<"C", "r", "e", "a", "t", "e", " ", "n", "e", "w", " ",
      "t", "e", "a", "m", " ", "'">> \o raw \o <<"'">>

\* The options prompt_team offers for the stripped query raw
TeamOptions(raw, names) ==
    (IF raw \notin Range(names) THEN <<CreateLabel(raw)>> ELSE <<>>)
    \o fuzzy_matches(raw, names, 10, 40)

\* A variant of prompt_team without the exact hit
NoExactHit(ts, raw) == FALSE

\* `raw in teams`: the exact hit of prompt_team
ExactHit(ts, raw) == HasTeam(ts, raw)

(***************************************************************************)
(* Commit and undo on one team                                             *)
(***************************************************************************)
\* A variant of commit that marks the position as held instead of counting
CommitTeamOnce(t, pos, amount) ==
    [t EXCEPT !.spent = @ + amount,
              !.roster = (pos :> 1) @@ @]

CommitTeam(t, pos, amount) ==
    [t EXCEPT !.spent = @ + amount,
              !.roster = (pos :> (DictGet(@, pos) + 1)) @@ @]

\* A variant of the roster step of undo that keeps a count of zero
UndoRosterKeepZero(roster, last_pos) ==
    IF last_pos \notin DOMAIN roster
    THEN roster
    ELSE [roster EXCEPT ![last_pos] = Max(0, roster[last_pos] - 1)]

UndoRoster(roster, last_pos) ==
    IF last_pos \notin DOMAIN roster
    THEN roster
    ELSE IF Max(0, roster[last_pos] - 1) = 0
    THEN [p \in DOMAIN roster \ {last_pos} |-> roster[p]]
    ELSE [roster EXCEPT ![last_pos] = Max(0, roster[last_pos] - 1)]

\* A variant of the spending step of undo that gives nothing back
UndoSpentNothing(spent, last_price) == spent

UndoSpent(spent, last_price) == Max(0, spent - last_price)

UndoTeam(t, last_pos, last_price) ==
    [t EXCEPT !.spent = UndoSpent(@, last_price),
              !.roster = UndoRoster(@, last_pos)]

(***************************************************************************)
(* State of the draft loop                                                 *)
(***************************************************************************)
VARIABLES
    df,                 \* the catalog loaded by load_salaries
    pos_initial_counts, \* main: computed once from df
    drafted,            \* main: set of drafted player names
    teams,              \* main: the team registry
    history,            \* main: list of (player, pos, price, team)
    pc,                 \* the input the program waits for, "done" or "crashed"
    sel,                \* main: <<row>> of the nominated player
    adj,                \* main: <<suggested price>>, <<>> when n/a
    price,              \* main: <<price entered>>
    existing,           \* prompt_team: list(teams.keys()) on entry
    menu,               \* curses_select: its options and highlighted index
    ev,                 \* observation: what the last step did
    snaps,              \* observation: registry and drafted set before each
                        \* commit still in the history
    nomStart,           \* observation: the state when the nomination began
    fz,                 \* arguments and result of a fuzzy_matches call
    eng                 \* position of an adjusted_salary call on its own

vars ==
    << df, pos_initial_counts, drafted, teams, history, pc, sel, adj, price,
       existing, menu, ev, snaps, nomStart, fz, eng >>

NoMenu ==
    [kind |-> "none", options |-> <<>>, kv |-> <<>>, idx |-> 0, raw |-> <<>>]

Event(op, how, raw) == [op |-> op, how |-> how, raw |-> raw]

NoFuzzy ==
    [state |-> "off", query |-> <<>>, choices |-> <<>>, limit |-> 0,
     min_ratio |-> 0, result |-> <<>>]

NoNomination == [teams |-> <<>>, drafted |-> {}, history |-> <<>>]

\* A variant of the top of the loop that prompts whatever is left
LoopTopPrompts(d) == "player"

\* The top of main's loop: prompt_player returns None at once when every
\* name is drafted, and main exits
LoopTop(d) == IF UndraftedNames(df, d) = <<>> THEN "done" ELSE "player"

(***************************************************************************)
(* Catalogs and input lines                                                *)
(***************************************************************************)
Row(name, position, salary, tier, proteam) ==
    [name |-> name, position |-> position, salary |-> salary, tier |-> tier,
     proteam |-> proteam]

\* Three players, one with a lower-case position and one without a tier
CatalogA ==
    << Row(<<"A", "l">>, QB, <<10>>, <<1>>, <<"k", "c">>),
       Row(<<"A", "l", "i">>, <<"r", "b">>, <<20>>, <<1>>, <<"s", "f">>),
       Row(<<"B", "o">>, RB, <<8>>, <<>>, <<"n", "e">>) >>

\* A name that occurs twice and a player without a salary
CatalogB ==
    << Row(<<"A", "l">>, QB, <<10>>, <<2>>, <<"k", "c">>),
       Row(<<"A", "l">>, WR, <<6>>, <<2>>, <<"k", "c">>),
       Row(<<"C", "y">>, QB, <<>>, <<>>, <<"n", "e">>) >>

Catalogs == {CatalogA, CatalogB}

PlayerLines ==
    { <<>>, <<" ">>, <<"q">>, <<"Q", "\r">>, <<"t", "e", "a", "m", "s">>,
      <<"U", "n", "d", "o">>, <<"a", "l">>, <<" ", "b", "o">>,
      <<"c", "y">>, <<"z", "z">> }

PriceLines ==
    { <<>>, <<"7">>, <<"-", "1">>, <<"x">>, <<"²">>, <<"U+0667", "\r">> }

TeamLines == { <<>>, <<"m", "e">>, <<"M", "e">>, <<"x", "y">> }

FallbackLines ==
    { <<>>, <<"0">>, <<"1">>, <<"2">>, <<"3">>, <<"x">>, <<"²">>,
      <<"U+0662">> }

Signals == {"EOFError", "KeyboardInterrupt"}

Keys == {"up", "down", "enter", "cancel", "other"}

Init ==
    /\ df \in Catalogs
    /\ pos_initial_counts = PosInitialCounts(df)
    /\ drafted = {}
    /\ teams = <<>>
    /\ history = <<>>
    /\ pc = LoopTop({})
    /\ sel = <<>>
    /\ adj = <<>>
    /\ price = <<>>
    /\ existing = <<>>
    /\ menu = NoMenu
    /\ ev = Event("start", "", <<>>)
    /\ snaps = <<>>
    /\ nomStart = NoNomination
    /\ fz = NoFuzzy
    /\ eng = "off"

(***************************************************************************)
(* Steps shared by several inputs                                          *)
(***************************************************************************)
\* An exception that nothing catches ends the program
Crash(err) ==
    /\ pc' = "crashed"
    /\ ev' = Event("crash", err, <<>>)
    /\ UNCHANGED << df, pos_initial_counts, drafted, teams, history, sel, adj,
                    price, existing, menu, snaps, nomStart, fz, eng >>

\* main, lines 523-552: the player is resolved, the suggestion is computed
\* and the price prompt is reached
Nominate(row) ==
    LET priced == row.salary # <<>>
    IN  \E remaining \in SortedRemaining(df, drafted, row.position) :
        /\ nomStart' = [teams |-> teams, drafted |-> drafted,
                        history |-> history]
        /\ teams' = IF priced THEN EnsureMyTeam(teams) ELSE teams
        /\ IF priced /\ TierGapRaises(remaining, row.name)
           THEN /\ pc' = "crashed"
                /\ ev' = Event("crash", "ValueError", <<>>)
                /\ UNCHANGED << sel, adj, price, existing, menu >>
           ELSE /\ pc' = "price"
                /\ ev' = Event("nominate", "", <<>>)
                /\ sel' = <<row>>
                /\ adj' = IF priced
                          THEN <<adjusted_salary(row, df, teams, drafted,
                                                 pos_initial_counts,
                                                 remaining)>>
                          ELSE <<>>
                /\ price' = <<>>
                /\ existing' = <<>>
                /\ menu' = NoMenu
        /\ UNCHANGED << df, pos_initial_counts, drafted, history, snaps, fz,
                        eng >>

\* teams[name] = Team(name=name)
RegisterTeam(ts, name) ==
    IF HasTeam(ts, name)
    THEN [ts EXCEPT ![TeamIndex(ts, name)] = Team(name)]
    ELSE Append(ts, Team(name))

\* main, lines 562-566, then the top of the loop.  ts is the registry as
\* prompt_team left it, tname the name of the team it returned.
Commit(ts, tname, how, raw) ==
    LET row == sel[1]
    IN  /\ teams' = [ts EXCEPT ![TeamIndex(ts, tname)] =
                        CommitTeam(@, row.position, price[1])]
        /\ drafted' = drafted \cup {row.name}
        /\ history' = Append(history,
                             [player |-> row.name, pos |-> row.position,
                              price |-> price[1], team |-> tname])
        /\ snaps' = Append(snaps, [teams |-> teams, drafted |-> drafted])
        /\ pc' = LoopTop(drafted')
        /\ ev' = Event("commit", how, raw)
        /\ sel' = <<>>
        /\ adj' = <<>>
        /\ price' = <<>>
        /\ existing' = <<>>
        /\ menu' = NoMenu
        /\ nomStart' = NoNomination
        /\ UNCHANGED << df, pos_initial_counts, fz, eng >>

\* curses_select is entered with a non-empty option list: curses either
\* starts (tty) or raises, and then the numbered fallback asks for a line
OpenMenu(kind, options, kv, raw) ==
    /\ menu' = [kind |-> kind, options |-> options, kv |-> kv, idx |-> 0,
                raw |-> raw]
    /\ \E tty \in BOOLEAN : pc' = IF tty THEN "menu" ELSE "fallback"
    /\ ev' = Event("menu", kind, raw)

\* curses_select_kv maps the chosen label to its value; None stays None
ChosenValue(kv, choice) ==
    IF choice = <<>> THEN <<>> ELSE ValueOfLabel(kv, choice[1])

\* prompt_player once its menu has returned chosen_name (<<>> is None)
PlayerMenuReturn(chosen_name) ==
    IF chosen_name = <<>>
    THEN /\ pc' = "player"
         /\ menu' = NoMenu
         /\ ev' = Event("menu_cancel", "player", <<>>)
         /\ UNCHANGED << df, pos_initial_counts, drafted, teams, history, sel,
                         adj, price, existing, snaps, nomStart, fz, eng >>
    ELSE Nominate(RowOf(df, chosen_name[1]))

\* A variant of prompt_team that returns None when its menu is cancelled
TeamMenuReturnOrAbort(choice) ==
    IF choice = <<>>
    THEN /\ pc' = LoopTop(drafted)
         /\ ev' = Event("menu_cancel", "team", <<>>)
         /\ sel' = <<>>
         /\ adj' = <<>>
         /\ price' = <<>>
         /\ existing' = <<>>
         /\ menu' = NoMenu
         /\ UNCHANGED << df, pos_initial_counts, drafted, teams, history,
                         snaps, nomStart, fz, eng >>
    ELSE IF choice[1] = CreateLabel(menu.raw)
    THEN Commit(RegisterTeam(teams, menu.raw), menu.raw, "menu_create",
                menu.raw)
    ELSE Commit(teams, choice[1], "menu_existing", menu.raw)

\* prompt_team once its menu has returned choice (<<>> is None)
TeamMenuReturn(choice) ==
    IF choice = <<>>
    THEN /\ pc' = "team"
         /\ menu' = NoMenu
         /\ ev' = Event("menu_cancel", "team", <<>>)
         /\ UNCHANGED << df, pos_initial_counts, drafted, teams, history, sel,
                         adj, price, existing, snaps, nomStart, fz, eng >>
    ELSE IF choice[1] = CreateLabel(menu.raw)
    THEN Commit(RegisterTeam(teams, menu.raw), menu.raw, "menu_create",
                menu.raw)
    ELSE Commit(teams, choice[1], "menu_existing", menu.raw)

\* The caller's step once curses_select has returned choice (<<>> is None)
MenuReturn(choice) ==
    IF menu.kind = "player"
    THEN PlayerMenuReturn(ChosenValue(menu.kv, choice))
    ELSE TeamMenuReturn(choice)

\* A variant of the cancel path that has marked the player drafted
BackToSearchDrafted(how) ==
    /\ drafted' = drafted \cup {sel[1].name}
    /\ pc' = LoopTop(drafted')
    /\ ev' = Event("cancel", how, <<>>)
    /\ sel' = <<>>
    /\ adj' = <<>>
    /\ price' = <<>>
    /\ existing' = <<>>
    /\ menu' = NoMenu
    /\ UNCHANGED << df, pos_initial_counts, teams, history, snaps, nomStart,
                    fz, eng >>

\* A cancelled price or team prompt: "Back to player search"
BackToSearch(how) ==
    /\ pc' = LoopTop(drafted)
    /\ ev' = Event("cancel", how, <<>>)
    /\ sel' = <<>>
    /\ adj' = <<>>
    /\ price' = <<>>
    /\ existing' = <<>>
    /\ menu' = NoMenu
    /\ UNCHANGED << df, pos_initial_counts, drafted, teams, history, snaps,
                    nomStart, fz, eng >>

(***************************************************************************)
(* prompt_player and the commands of main                                  *)
(***************************************************************************)
\* input() raises EOFError or KeyboardInterrupt: prompt_player returns None
\* and main exits
PlayerSignal(sig) ==
    /\ pc = "player"
    /\ pc' = "done"
    /\ ev' = Event("quit", sig, <<>>)
    /\ UNCHANGED << df, pos_initial_counts, drafted, teams, history, sel, adj,
                    price, existing, menu, snaps, nomStart, fz, eng >>

\* An empty line: the prompt is shown again
PlayerBlank(line) ==
    /\ pc = "player"
    /\ Strip(line) = <<>>
    /\ ev' = Event("blank", "player", <<>>)
    /\ UNCHANGED << df, pos_initial_counts, drafted, teams, history, pc, sel,
                    adj, price, existing, menu, snaps, nomStart, fz, eng >>

PlayerQuit(line) ==
    /\ pc = "player"
    /\ Strip(line) # <<>>
    /\ Lower(Strip(line)) \in QuitWords
    /\ pc' = "done"
    /\ ev' = Event("quit", "word", <<>>)
    /\ UNCHANGED << df, pos_initial_counts, drafted, teams, history, sel, adj,
                    price, existing, menu, snaps, nomStart, fz, eng >>

\* 'teams': print_team_summary, then the top of the loop
PlayerTeams(line) ==
    /\ pc = "player"
    /\ Strip(line) # <<>>
    /\ Lower(Strip(line)) \notin QuitWords
    /\ Lower(Strip(line)) \in TeamsWords
    /\ pc' = LoopTop(drafted)
    /\ ev' = Event("teams", "", <<>>)
    /\ UNCHANGED << df, pos_initial_counts, drafted, teams, history, sel, adj,
                    price, existing, menu, snaps, nomStart, fz, eng >>

\* drafted.remove(last_player) when it is there
UndoDrafted(d, last_player) == d \ {last_player}

\* The registry after the undo of one history entry
UndoTeams(ts, last) ==
    IF HasTeam(ts, last.team)
    THEN [ts EXCEPT ![TeamIndex(ts, last.team)] =
              UndoTeam(@, last.pos, last.price)]
    ELSE ts

\* A variant of undo that pops the history without looking at it first
PlayerUndoUnguarded(line) ==
    /\ pc = "player"
    /\ Strip(line) # <<>>
    /\ Lower(Strip(line)) \notin QuitWords \cup TeamsWords
    /\ Lower(Strip(line)) \in UndoWords
    /\ IF history = <<>>
       THEN Crash("IndexError")
       ELSE /\ history' = SubSeq(history, 1, Len(history) - 1)
            /\ drafted' = UndoDrafted(drafted, history[Len(history)].player)
            /\ teams' = UndoTeams(teams, history[Len(history)])
            /\ snaps' = SubSeq(snaps, 1, Len(snaps) - 1)
            /\ ev' = Event("undo", "popped", <<>>)
            /\ pc' = LoopTop(drafted')
            /\ nomStart' = NoNomination
            /\ UNCHANGED << df, pos_initial_counts, sel, adj, price, existing,
                            menu, fz, eng >>

\* 'undo': main, lines 498-516
PlayerUndo(line) ==
    /\ pc = "player"
    /\ Strip(line) # <<>>
    /\ Lower(Strip(line)) \notin QuitWords \cup TeamsWords
    /\ Lower(Strip(line)) \in UndoWords
    /\ IF history = <<>>
       THEN /\ ev' = Event("undo", "empty", <<>>)
            /\ pc' = LoopTop(drafted)
            /\ UNCHANGED << drafted, teams, history, snaps >>
       ELSE LET last == history[Len(history)]
            IN  /\ history' = SubSeq(history, 1, Len(history) - 1)
                /\ drafted' = UndoDrafted(drafted, last.player)
                /\ teams' = UndoTeams(teams, last)
                /\ snaps' = SubSeq(snaps, 1, Len(snaps) - 1)
                /\ ev' = Event("undo", "popped", <<>>)
                /\ pc' = LoopTop(drafted')
    /\ nomStart' = NoNomination
    /\ UNCHANGED << df, pos_initial_counts, sel, adj, price, existing, menu,
                    fz, eng >>

\* A variant of prompt_player that returns None when nothing matches
PlayerMatchedOrQuit(matches) ==
    IF matches = <<>>
    THEN /\ ev' = Event("no_match", "", <<>>)
         /\ pc' = "done"
         /\ UNCHANGED << df, pos_initial_counts, drafted, teams, history, sel,
                         adj, price, existing, menu, snaps, nomStart, fz,
                         eng >>
    ELSE IF Len(matches) = 1
    THEN Nominate(RowOf(df, matches[1]))
    ELSE /\ OpenMenu("player", Firsts(PlayerOptions(df, matches)),
                     PlayerOptions(df, matches), <<>>)
         /\ UNCHANGED << df, pos_initial_counts, drafted, teams, history, sel,
                         adj, price, existing, snaps, nomStart, fz, eng >>

\* prompt_player once the matches of the query are known
PlayerMatched(matches) ==
    IF matches = <<>>
    THEN /\ ev' = Event("no_match", "", <<>>)
         /\ UNCHANGED << df, pos_initial_counts, drafted, teams, history, pc,
                         sel, adj, price, existing, menu, snaps, nomStart, fz,
                         eng >>
    ELSE IF Len(matches) = 1
    THEN Nominate(RowOf(df, matches[1]))
    ELSE /\ OpenMenu("player", Firsts(PlayerOptions(df, matches)),
                     PlayerOptions(df, matches), <<>>)
         /\ UNCHANGED << df, pos_initial_counts, drafted, teams, history, sel,
                         adj, price, existing, snaps, nomStart, fz, eng >>

\* Any other line is a fuzzy query over the undrafted names
PlayerQuery(line) ==
    /\ pc = "player"
    /\ Strip(line) # <<>>
    /\ Lower(Strip(line)) \notin QuitWords \cup TeamsWords \cup UndoWords
    /\ \E matches \in {fuzzy_matches(Strip(line),
                                     UndraftedNames(df, drafted), 20, 40)} :
            PlayerMatched(matches)

(***************************************************************************)
(* prompt_price                                                            *)
(***************************************************************************)
\* main, lines 553-557: a price was returned and prompt_team is entered
PriceReturned(p) ==
    /\ price' = <<p>>
    /\ existing' = TeamNames(teams)
    /\ pc' = "team"
    /\ ev' = Event("price", "", <<>>)
    /\ UNCHANGED << df, pos_initial_counts, drafted, teams, history, sel, adj,
                    menu, snaps, nomStart, fz, eng >>

PriceCancel(sig) ==
    /\ pc = "price"
    /\ BackToSearch("price")

PriceLine(line) ==
    /\ pc = "price"
    /\ \E raw \in {Strip(line)} :
        IF raw = <<>> /\ adj # <<>>
        THEN PriceReturned(adj[1])
        ELSE IF IsDigitStr(raw)
        THEN IF IntRaises(raw)
             THEN Crash("ValueError")
             ELSE PriceReturned(ParseInt(raw))
        ELSE /\ ev' = Event("reprompt", "price", <<>>)
             /\ UNCHANGED << df, pos_initial_counts, drafted, teams, history,
                             pc, sel, adj, price, existing, menu, snaps,
                             nomStart, fz, eng >>

(***************************************************************************)
(* prompt_team                                                             *)
(***************************************************************************)
TeamCancel(sig) ==
    /\ pc = "team"
    /\ BackToSearch("team")

TeamBlank(line) ==
    /\ pc = "team"
    /\ Strip(line) = <<>>
    /\ ev' = Event("blank", "team", <<>>)
    /\ UNCHANGED << df, pos_initial_counts, drafted, teams, history, pc, sel,
                    adj, price, existing, menu, snaps, nomStart, fz, eng >>

\* The query is the name of a team: it is returned and the pick is committed
TeamExact(line) ==
    /\ pc = "team"
    /\ Strip(line) # <<>>
    /\ ExactHit(teams, Strip(line))
    /\ Commit(teams, Strip(line), "exact", Strip(line))

\* Otherwise the options are built; without options the team is created
\* directly, with options the menu is opened
TeamQuery(line) ==
    /\ pc = "team"
    /\ Strip(line) # <<>>
    /\ ~ExactHit(teams, Strip(line))
    /\ \E raw \in {Strip(line)} :
       \E options \in {TeamOptions(raw, existing)} :
        IF options = <<>>
        THEN Commit(RegisterTeam(teams, raw), raw, "create_direct", raw)
        ELSE /\ OpenMenu("team", options, <<>>, raw)
             /\ UNCHANGED << df, pos_initial_counts, drafted, teams, history,
                             sel, adj, price, existing, snaps, nomStart, fz,
                             eng >>

(***************************************************************************)
(* curses_select                                                           *)
(***************************************************************************)
\* The window of the menu is computed anew from the terminal height maxy at
\* every pass of the loop, before the key is read, and is not kept
START_LINE == 3

\* visible = max(1, min(len(options), maxy - start_line - 1))
MenuVisible(n, maxy) == Max(1, Min(n, maxy - START_LINE - 1))

\* A variant of the window that centres the highlighted row and does not
\* stop at the end of the list
MenuTopCentred(idx, n, visible) == Max(0, idx - visible \div 2)

\* top = max(0, min(idx - visible // 2, len(options) - visible))
MenuTop(idx, n, visible) == Max(0, Min(idx - visible \div 2, n - visible))

\* The indices of the options the loop over range(visible) draws
Rendered(n, visible, top) ==
    { top + i : i \in { j \in 0..(visible - 1) : top + j < n } }

\* A variant of the confirm key that returns the first option
KeyChoiceFirst(key) ==
    IF key = "enter" THEN <<menu.options[1]>> ELSE <<>>

\* What the menu returns on Enter (the highlighted option) and on q or Esc
\* (None)
KeyChoice(key) ==
    IF key = "enter" THEN <<menu.options[menu.idx + 1]>> ELSE <<>>

\* One key read by getch in the interactive menu
MenuKey(key) ==
    /\ pc = "menu"
    /\ IF key = "up"
       THEN /\ menu' = [menu EXCEPT !.idx = Max(0, @ - 1)]
            /\ ev' = Event("key", key, <<>>)
            /\ UNCHANGED << df, pos_initial_counts, drafted, teams, history,
                            pc, sel, adj, price, existing, snaps, nomStart,
                            fz, eng >>
       ELSE IF key = "down"
       THEN /\ menu' = [menu EXCEPT
                            !.idx = Min(Len(menu.options) - 1, @ + 1)]
            /\ ev' = Event("key", key, <<>>)
            /\ UNCHANGED << df, pos_initial_counts, drafted, teams, history,
                            pc, sel, adj, price, existing, snaps, nomStart,
                            fz, eng >>
       ELSE IF key \in {"enter", "cancel"}
       THEN MenuReturn(KeyChoice(key))
       ELSE /\ ev' = Event("key", key, <<>>)
            /\ UNCHANGED << df, pos_initial_counts, drafted, teams, history,
                            pc, sel, adj, price, existing, menu, snaps,
                            nomStart, fz, eng >>

\* KeyboardInterrupt in getch is no Exception: the fallback does not catch it
MenuInterrupt ==
    /\ pc = "menu"
    /\ Crash("KeyboardInterrupt")

\* A curses error while the menu runs: the numbered fallback takes over
MenuError ==
    /\ pc = "menu"
    /\ pc' = "fallback"
    /\ menu' = [menu EXCEPT !.idx = 0]
    /\ ev' = Event("menu_error", "", <<>>)
    /\ UNCHANGED << df, pos_initial_counts, drafted, teams, history, sel, adj,
                    price, existing, snaps, nomStart, fz, eng >>

\* `if 0 <= idx < len(options): return options[idx]`, else None
OptionAt(options, idx) ==
    IF 0 <= idx /\ idx < Len(options) THEN <<options[idx + 1]>> ELSE <<>>

\* The choice the numbered fallback makes of the stripped line it has read
FallbackChoice(options, sel_line) ==
    IF ~IsDigitStr(sel_line)
    THEN <<>>
    ELSE OptionAt(options, ParseInt(sel_line) - 1)

FallbackLine(line) ==
    /\ pc = "fallback"
    /\ IF IsDigitStr(Strip(line)) /\ IntRaises(Strip(line))
       THEN Crash("ValueError")
       ELSE MenuReturn(FallbackChoice(menu.options, Strip(line)))

\* The fallback's input() catches KeyboardInterrupt only
FallbackSignal(sig) ==
    /\ pc = "fallback"
    /\ IF sig = "KeyboardInterrupt"
       THEN MenuReturn(<<>>)
       ELSE Crash(sig)

Next ==
    \/ \E sig \in Signals : PlayerSignal(sig)
    \/ \E line \in PlayerLines : PlayerBlank(line)
    \/ \E line \in PlayerLines : PlayerQuit(line)
    \/ \E line \in PlayerLines : PlayerTeams(line)
    \/ \E line \in PlayerLines : PlayerUndo(line)
    \/ \E line \in PlayerLines : PlayerQuery(line)
    \/ \E sig \in Signals : PriceCancel(sig)
    \/ \E line \in PriceLines : PriceLine(line)
    \/ \E sig \in Signals : TeamCancel(sig)
    \/ \E line \in TeamLines : TeamBlank(line)
    \/ \E line \in TeamLines : TeamExact(line)
    \/ \E line \in TeamLines : TeamQuery(line)
    \/ \E key \in Keys : MenuKey(key)
    \/ MenuInterrupt
    \/ MenuError
    \/ \E line \in FallbackLines : FallbackLine(line)
    \/ \E sig \in Signals : FallbackSignal(sig)

Spec == Init /\ [][Next]_vars

(***************************************************************************)
(* fuzzy_matches on its own: the arguments are drawn from bounded sets and *)
(* the one step is the call.                                               *)
(***************************************************************************)
MaxChoices == 3

MaxLimit == 3

PadLen == 165

\* A name that holds "ab" behind PadLen other characters
LongChoice == [i \in 1..PadLen |-> "x"] \o <<"a", "b">>

FuzzyPool ==
    << <<"a", "b">>, <<"A", "c", "b">>, <<"x", "A", "B">>, <<"b", "a">>,
       LongChoice >>

FuzzyQueries == { <<>>, <<" ">>, <<"a", "b">>, <<" ", "A", "b">>, <<"b">> }

FuzzyMinRatios == {0, 40, 90}

\* The lists of at most MaxChoices choices of the pool
ChoiceLists ==
    UNION { [1..n -> 1..Len(FuzzyPool)] : n \in 0..MaxChoices }

InitFuzzy ==
    /\ df = CatalogA
    /\ pos_initial_counts = PosInitialCounts(df)
    /\ drafted = {}
    /\ teams = <<>>
    /\ history = <<>>
    /\ pc = "idle"
    /\ sel = <<>>
    /\ adj = <<>>
    /\ price = <<>>
    /\ existing = <<>>
    /\ menu = NoMenu
    /\ ev = Event("start", "", <<>>)
    /\ snaps = <<>>
    /\ nomStart = NoNomination
    /\ eng = "off"
    /\ \E query \in FuzzyQueries, picks \in ChoiceLists,
          limit \in 0..MaxLimit, min_ratio \in FuzzyMinRatios :
            fz = [state |-> "call", query |-> query,
                  choices |-> [i \in DOMAIN picks |-> FuzzyPool[picks[i]]],
                  limit |-> limit, min_ratio |-> min_ratio, result |-> <<>>]

FuzzyCall ==
    /\ fz.state = "call"
    /\ fz' = [fz EXCEPT !.state = "done",
                        !.result = fuzzy_matches(fz.query, fz.choices,
                                                 fz.limit, fz.min_ratio)]
    /\ UNCHANGED << df, pos_initial_counts, drafted, teams, history, pc, sel,
                    adj, price, existing, menu, ev, snaps, nomStart, eng >>

NextFuzzy == FuzzyCall

SpecFuzzy == InitFuzzy /\ [][NextFuzzy]_vars

(***************************************************************************)
(* adjusted_salary on its own: the catalog, the drafted set, the registry  *)
(* and the initial counts are drawn from bounded sets and the one step is  *)
(* the call for one row.                                                   *)
(***************************************************************************)
EngineRosters ==
    { <<>>,
      (QB :> 1),
      (<<"r", "b">> :> 1),
      (RB :> 2) @@ (WR :> 2) @@ (TE :> 1),
      (RB :> 3) @@ (WR :> 2) @@ (TE :> 1) @@ (QB :> 1) }

EngineSpent == {0, 12, 250}

\* Registries without my team, with my team alone, and with another team
\* before or after it
EngineRegistries ==
    {<<>>, <<Team(<<"x", "y">>)>>}
    \cup { <<[Team(MY_TEAM_NAME) EXCEPT !.roster = r, !.spent = sp]>> :
                r \in EngineRosters, sp \in EngineSpent }
    \cup { <<[Team(<<"x", "y">>) EXCEPT !.spent = sp],
             [Team(MY_TEAM_NAME) EXCEPT !.roster = r]>> :
                r \in EngineRosters, sp \in EngineSpent }

\* The counts main computes, no counts, and counts of a larger pool
EngineCounts(cat) ==
    { PosInitialCounts(cat), <<>>,
      [p \in DOMAIN PosInitialCounts(cat) |-> PosInitialCounts(cat)[p] + 2] }

\* Two players of one position with the same salary, whose order after the
\* sort is not determined
CatalogTies ==
    << Row(<<"A", "l">>, RB, <<20>>, <<1>>, <<"k", "c">>),
       Row(<<"B", "o">>, RB, <<20>>, <<1>>, <<"s", "f">>),
       Row(<<"C", "y">>, RB, <<10>>, <<>>, <<"n", "e">>) >>

EngineCatalogs == Catalogs \cup {CatalogTies}

InitEngine ==
    /\ df \in EngineCatalogs
    /\ pos_initial_counts \in EngineCounts(df)
    /\ drafted \in SUBSET Range(UndraftedNames(df, {}))
    /\ teams \in EngineRegistries
    /\ history = <<>>
    /\ pc = "idle"
    /\ sel = <<>>
    /\ adj = <<>>
    /\ price = <<>>
    /\ existing = <<>>
    /\ menu = NoMenu
    /\ ev = Event("start", "", <<>>)
    /\ snaps = <<>>
    /\ nomStart = NoNomination
    /\ fz = NoFuzzy
    /\ eng = "call"

\* adjusted_salary(row, ...) for a row with a salary: it returns the
\* suggestion, or the tier-gap factor raises
EngineCall(i) ==
    /\ eng = "call"
    /\ df[i].salary # <<>>
    /\ sel' = <<df[i]>>
    /\ teams' = EnsureMyTeam(teams)
    /\ \E remaining \in SortedRemaining(df, drafted, df[i].position) :
        IF TierGapRaises(remaining, df[i].name)
        THEN eng' = "raised" /\ adj' = <<>>
        ELSE /\ eng' = "returned"
             /\ adj' = <<adjusted_salary(df[i], df, teams, drafted,
                                         pos_initial_counts, remaining)>>
    /\ UNCHANGED << df, pos_initial_counts, drafted, history, pc, price,
                    existing, menu, ev, snaps, nomStart, fz >>

NextEngine == \E i \in 1..Len(df) : EngineCall(i)

SpecEngine == InitEngine /\ [][NextEngine]_vars

(***************************************************************************)
(* curses_select on its own: the options are drawn from bounded lists, the *)
(* first step is the call and the following steps are the keys or the line *)
(* it reads until it returns or raises.                                    *)
(***************************************************************************)
MaxOptions == 3

\* A line of decimal digits, one more than int() converts
LongNumber == [i \in 1..(MAX_STR_DIGITS + 1) |-> "1"]

\* The lines the fallback reads when curses_select is called on its own
SelectLines == FallbackLines \cup {LongNumber}

OptionPool == { <<"a">>, <<"b">> }

OptionLists == UNION { [1..n -> OptionPool] : n \in 0..MaxOptions }

InitSelect ==
    /\ df = CatalogA
    /\ pos_initial_counts = PosInitialCounts(df)
    /\ drafted = {}
    /\ teams = <<>>
    /\ history = <<>>
    /\ pc = "call"
    /\ sel = <<>>
    /\ adj = <<>>
    /\ price = <<>>
    /\ existing = <<>>
    /\ \E options \in OptionLists :
        menu = [kind |-> "select", options |-> options, kv |-> <<>>,
                idx |-> 0, raw |-> <<>>]
    /\ ev = Event("start", "", <<>>)
    /\ snaps = <<>>
    /\ nomStart = NoNomination
    /\ fz = NoFuzzy
    /\ eng = "off"

\* curses_select returns choice (<<>> is None); how tells what it had read,
\* line the line when it was one
SelectReturn(how, line, choice) ==
    /\ pc' = "returned"
    /\ ev' = [op |-> "return", how |-> how, raw |-> line, choice |-> choice]
    /\ UNCHANGED << df, pos_initial_counts, drafted, teams, history, sel, adj,
                    price, existing, menu, snaps, nomStart, fz, eng >>

\* `if not options: return None`, else the menu or its fallback starts
SelectCall ==
    /\ pc = "call"
    /\ IF menu.options = <<>>
       THEN SelectReturn("empty", <<>>, <<>>)
       ELSE /\ OpenMenu("select", menu.options, <<>>, <<>>)
            /\ UNCHANGED << df, pos_initial_counts, drafted, teams, history,
                            sel, adj, price, existing, snaps, nomStart, fz,
                            eng >>

SelectKey(key) ==
    /\ pc = "menu"
    /\ menu.kind = "select"
    /\ IF key \in {"enter", "cancel"}
       THEN SelectReturn(key, <<>>, KeyChoice(key))
       ELSE MenuKey(key)

SelectLine(line) ==
    /\ pc = "fallback"
    /\ menu.kind = "select"
    /\ IF IsDigitStr(Strip(line)) /\ IntRaises(Strip(line))
       THEN Crash("ValueError")
       ELSE SelectReturn("line", line,
                         FallbackChoice(menu.options, Strip(line)))

SelectSignal(sig) ==
    /\ pc = "fallback"
    /\ menu.kind = "select"
    /\ IF sig = "KeyboardInterrupt"
       THEN SelectReturn("interrupt", <<>>, <<>>)
       ELSE Crash(sig)

NextSelect ==
    \/ SelectCall
    \/ \E key \in Keys : SelectKey(key)
    \/ MenuInterrupt
    \/ MenuError
    \/ \E line \in SelectLines : SelectLine(line)
    \/ \E sig \in Signals : SelectSignal(sig)

SpecSelect == InitSelect /\ [][NextSelect]_vars

(***************************************************************************)
(* _need_level on its own: the roster and the position are drawn from      *)
(* bounded sets and the one step is the call.                              *)
(***************************************************************************)
MaxCount == 3

UNKNOWN == <<"U", "N", "K", "N", "O", "W", "N">>

NeedPositions ==
    { QB, RB, WR, TE, DST, KICKER, FLEX, UNKNOWN, <<"r", "b">>, <<"T", "e">> }

\* A roster holds the positions with a positive count only
PositiveOnly(counts) ==
    [p \in { k \in DOMAIN counts : counts[k] > 0 } |-> counts[p]]

NeedRosters ==
    { PositiveOnly((QB :> q) @@ (RB :> r) @@ (WR :> w) @@ (TE :> t)
                   @@ (FLEX :> f)) :
        q \in 0..1, r \in 0..MaxCount, w \in 0..MaxCount, t \in 0..MaxCount,
        f \in 0..1 }

InitNeed ==
    /\ df = CatalogA
    /\ pos_initial_counts = PosInitialCounts(df)
    /\ drafted = {}
    /\ \E roster \in NeedRosters :
        teams = <<[Team(MY_TEAM_NAME) EXCEPT !.roster = roster]>>
    /\ history = <<>>
    /\ pc = "call"
    /\ sel = <<>>
    /\ adj = <<>>
    /\ price = <<>>
    /\ existing = <<>>
    /\ menu = NoMenu
    /\ ev = Event("start", "", <<>>)
    /\ snaps = <<>>
    /\ nomStart = NoNomination
    /\ fz = NoFuzzy
    /\ eng = "off"

\* _need_level(team, pos, _requirements()): the event holds the level
\* returned and the position asked for
NeedCall(pos) ==
    /\ pc = "call"
    /\ pc' = "returned"
    /\ ev' = Event("need_level", _need_level(teams[1], pos, _requirements),
                   pos)
    /\ UNCHANGED << df, pos_initial_counts, drafted, teams, history, sel, adj,
                    price, existing, menu, snaps, nomStart, fz, eng >>

SpecNeed == InitNeed /\ [][\E pos \in NeedPositions : NeedCall(pos)]_vars

(***************************************************************************)
(* Properties of the draft loop                                            *)
(***************************************************************************)
\* The registry ts and the drafted set d hold what the snapshot snap holds:
\* every team of the snapshot is unchanged, and a team registered since has
\* spent nothing and holds nobody
MatchesSnapshot(snap, ts, d) ==
    /\ d = snap.drafted
    /\ Len(ts) >= Len(snap.teams)
    /\ \A i \in 1..Len(ts) :
        IF i <= Len(snap.teams)
        THEN ts[i] = snap.teams[i]
        ELSE ts[i].spent = 0 /\ ts[i].roster = <<>>

\* C1: an undo that follows N commits removes the last history entry and
\* leaves the drafted set and every team's spent and roster (without
\* zero-count entries) as they were after the first N-1 commits; the
\* history is one entry shorter.
C1_UndoRestores ==
    [][ (ev'.op = "undo" /\ ev'.how = "popped") =>
            /\ history # <<>>
            /\ Len(history') = Len(history) - 1
            /\ history' = SubSeq(history, 1, Len(history) - 1)
            /\ MatchesSnapshot(snaps[Len(snaps)], teams', drafted')
            /\ \A i \in 1..Len(teams') :
                \A p \in DOMAIN teams'[i].roster : teams'[i].roster[p] > 0
      ]_vars

\* The second of two commits was undone, and it had created its team
C1_Witness ==
    /\ ev.op = "undo"
    /\ ev.how = "popped"
    /\ Len(history) = 1
    /\ \E i \in 1..Len(teams) :
        /\ teams[i].name # history[1].team
        /\ teams[i].name # MY_TEAM_NAME
        /\ teams[i].spent = 0

\* The prices of the history entries that name the team tname
RECURSIVE HistoryPrice(_, _)
HistoryPrice(h, tname) ==
    IF h = <<>>
    THEN 0
    ELSE (IF Head(h).team = tname THEN Head(h).price ELSE 0)
         + HistoryPrice(Tail(h), tname)

\* C2: whatever commits, undos and cancellations have happened, no team has
\* spent more than the prices of the history entries that name it.
C2_SpentWithinHistory ==
    \A i \in 1..Len(teams) :
        /\ teams[i].spent >= 0
        /\ teams[i].spent <= HistoryPrice(history, teams[i].name)

\* An undo has taken a pick back from a team that still holds a paid one
C2_Witness ==
    /\ ev.op = "undo"
    /\ ev.how = "popped"
    /\ \E i \in 1..Len(teams) :
        /\ teams[i].spent > 0
        /\ teams[i].spent = HistoryPrice(history, teams[i].name)

\* C3: the drafted set is the set of the names in the history, no name is
\* in two history entries, and the player of a nomination under way is not
\* drafted.
C3_DraftedIsHistory ==
    /\ drafted = { history[i].player : i \in 1..Len(history) }
    /\ \A i, j \in 1..Len(history) :
        history[i].player = history[j].player => i = j
    /\ sel # <<>> => sel[1].name \notin drafted

\* Two picks are committed and a third player is nominated
C3_Witness ==
    /\ Len(history) = 2
    /\ pc = "team"
    /\ sel # <<>>
    /\ drafted # {}

\* C4: a cancelled price or team prompt commits nothing: the drafted set,
\* the history and every team's spent and roster are as they were when the
\* nomination began, and the player prompt is shown again.
C4_CancelCommitsNothing ==
    ev.op = "cancel" =>
        /\ history = nomStart.history
        /\ MatchesSnapshot(nomStart, teams, drafted)
        /\ pc = "player"
        /\ sel = <<>>

\* The team prompt was cancelled after an earlier pick, in a nomination that
\* had registered my team
C4_Witness ==
    /\ ev.op = "cancel"
    /\ ev.how = "team"
    /\ Len(history) = 1
    /\ Len(teams) > Len(nomStart.teams)

\* C6: a team query that is the exact name of a team commits to that team
\* at once: no menu is opened, no team is created, the registry keeps one
\* team of that name and the pick is booked on it.
C6_ExactNameResolves ==
    [][ (pc = "team" /\ ev'.op \in {"commit", "menu"}
            /\ HasTeam(teams, ev'.raw)) =>
            /\ ev'.op = "commit"
            /\ ev'.how = "exact"
            /\ pc' \notin {"menu", "fallback"}
            /\ menu' = NoMenu
            /\ TeamNames(teams') = TeamNames(teams)
            /\ \A i, j \in 1..Len(teams') :
                teams'[i].name = teams'[j].name => i = j
            /\ history'[Len(history')].team = ev'.raw
            /\ TeamOf(teams', ev'.raw).spent
                = TeamOf(teams, ev'.raw).spent + price[1]
            /\ TeamOf(teams', ev'.raw).budget = TeamOf(teams, ev'.raw).budget
      ]_vars

\* Two picks were resolved by the same exact name and are booked on one team
C6_Witness ==
    /\ ev.op = "commit"
    /\ ev.how = "exact"
    /\ Len(history) = 2
    /\ history[1].team = ev.raw
    /\ history[2].team = ev.raw
    /\ TeamOf(teams, ev.raw).spent = history[1].price + history[2].price
    /\ TeamOf(teams, ev.raw).spent > 0

\* C7: a team query that is no team's name and has no fuzzy match among the
\* team names creates the team directly, with the default budget and the
\* pick as its only spending, and shows no menu.
C7_NoMatchCreatesDirectly ==
    [][ (pc = "team" /\ ev'.op \in {"commit", "menu"}
            /\ ~HasTeam(teams, ev'.raw)
            /\ fuzzy_matches(ev'.raw, TeamNames(teams), 10, 40) = <<>>) =>
            /\ ev'.op = "commit"
            /\ pc' \notin {"menu", "fallback"}
            /\ menu' = NoMenu
            /\ Len(teams') = Len(teams) + 1
            /\ HasTeam(teams', ev'.raw)
            /\ TeamOf(teams', ev'.raw).budget = DEFAULT_BUDGET
            /\ TeamOf(teams', ev'.raw).spent = price[1]
      ]_vars

\* C8: end of input or an interrupt at a prompt that reads a line, the
\* numbered selection line of the fallback included, is a cancel: the
\* program does not end with the exception, and at the player prompt it
\* quits.
C8_SignalIsCancel ==
    [][ (pc \in {"player", "price", "team", "fallback"}
            /\ ev'.how \in Signals) =>
            /\ ev'.op \in {"quit", "cancel", "menu_cancel"}
            /\ pc' # "crashed"
            /\ pc = "player" => pc' = "done"
      ]_vars

\* C17: a cancel at the team menu keeps the nomination: no team is created
\* or changed, the player and the price entered stay, the team prompt reads
\* a fresh query, and the pick can be committed from there.
C17_TeamMenuCancelKeeps ==
    /\ [][ (ev'.op = "menu_cancel" /\ ev'.how = "team") =>
            /\ pc \in {"menu", "fallback"}
            /\ pc' = "team"
            /\ teams' = teams
            /\ drafted' = drafted
            /\ history' = history
            /\ sel' = sel
            /\ price' = price
            /\ nomStart' = nomStart
         ]_vars
    /\ []((/\ ev.op = "menu_cancel"
           /\ ev.how = "team"
           /\ HasTeam(teams, MY_TEAM_NAME)) =>
            /\ sel # <<>>
            /\ price # <<>>
            /\ ENABLED TeamExact(MY_TEAM_NAME))

\* The menu of the second nomination was cancelled, with a price entered
C17_Witness ==
    /\ ev.op = "menu_cancel"
    /\ ev.how = "team"
    /\ pc = "team"
    /\ price = <<7>>
    /\ Len(history) = 1
    /\ HasTeam(teams, MY_TEAM_NAME)

(***************************************************************************)
(* Properties of adjusted_salary                                           *)
(***************************************************************************)
\* C5: the suggestion adjusted_salary returns for a player with the salary
\* base lies between round(base * CAP_MIN) and round(base * CAP_MAX).
C5_WithinCaps ==
    eng = "returned" =>
        /\ DRound(DMul(DInt(sel[1].salary[1]), CAP_MIN)) <= adj[1]
        /\ adj[1] <= DRound(DMul(DInt(sel[1].salary[1]), CAP_MAX))

\* The product of the factors lies above the cap and the suggestion is the
\* capped one
C5_Witness ==
    /\ eng = "returned"
    /\ \E remaining \in SortedRemaining(df, drafted, sel[1].position) :
        DLess(CAP_MAX, FactorProduct(sel[1], df, teams, drafted,
                                     pos_initial_counts, remaining))
    /\ adj[1] = DRound(DMul(DInt(sel[1].salary[1]), CAP_MAX))
    /\ adj[1] > sel[1].salary[1]

(***************************************************************************)
(* Properties of fuzzy_matches                                             *)
(***************************************************************************)
\* `q in c.lower()` for the stripped, lower-cased query of the call
HoldsQuery(query, choice) == Contains(Normal(query), Lower(choice))

\* C9: for a query that is not blank, every choice that contains the query
\* stands in the result before every returned choice that matches by
\* similarity only, wherever the query occurs in the choice.
C9_SubstringOutranks ==
    (fz.state = "done" /\ Normal(fz.query) # <<>>) =>
        \A k \in 1..Len(fz.choices) :
            \A j \in 1..Len(fz.result) :
                (/\ HoldsQuery(fz.query, fz.choices[k])
                 /\ ~HoldsQuery(fz.query, fz.result[j])) =>
                    \E i \in 1..(j - 1) : fz.result[i] = fz.choices[k]

\* C10: at most limit choices are returned; for a query that is not blank
\* no returned choice scores below min_ratio, every choice that scores at
\* least min_ratio passes the threshold, and under the default threshold of
\* 40 so does every choice that contains the query.
C10_LimitAndThreshold ==
    fz.state = "done" =>
        /\ Len(fz.result) <= fz.limit
        /\ Normal(fz.query) # <<>> =>
            \A i \in 1..Len(fz.result) :
                Score(Normal(fz.query), fz.result[i]) >= fz.min_ratio
        /\ Normal(fz.query) # <<>> =>
            \A k \in 1..Len(fz.choices) :
                Score(Normal(fz.query), fz.choices[k]) >= fz.min_ratio =>
                    fz.choices[k]
                        \in Range(Ranked(Normal(fz.query), fz.choices,
                                         fz.min_ratio))
        /\ (Normal(fz.query) # <<>> /\ fz.min_ratio = 40) =>
            \A k \in 1..Len(fz.choices) :
                HoldsQuery(fz.query, fz.choices[k]) =>
                    fz.choices[k]
                        \in Range(Ranked(Normal(fz.query), fz.choices, 40))

\* The choices of seq that score sc for the normalised query q, in order
RECURSIVE WithScore(_, _, _)
WithScore(q, seq, sc) ==
    IF seq = <<>>
    THEN <<>>
    ELSE (IF Score(q, Head(seq)) = sc THEN <<Head(seq)>> ELSE <<>>)
         \o WithScore(q, Tail(seq), sc)

IsPrefix(a, b) == Len(a) <= Len(b) /\ a = SubSeq(b, 1, Len(a))

\* C11: for a query that is not blank the result is ordered by score
\* descending, the returned choices of one score stand in their input order,
\* and of two returned choices that contain the query the one with the
\* earlier first occurrence stands before the other.
C11_OrderedStable ==
    (fz.state = "done" /\ Normal(fz.query) # <<>>) =>
        /\ \A i, j \in 1..Len(fz.result) :
            i < j => Score(Normal(fz.query), fz.result[i])
                        >= Score(Normal(fz.query), fz.result[j])
        /\ \A i \in 1..Len(fz.result) :
            IsPrefix(WithScore(Normal(fz.query), fz.result,
                               Score(Normal(fz.query), fz.result[i])),
                     WithScore(Normal(fz.query), fz.choices,
                               Score(Normal(fz.query), fz.result[i])))
        /\ \A i, j \in 1..Len(fz.result) :
            (/\ HoldsQuery(fz.query, fz.result[i])
             /\ HoldsQuery(fz.query, fz.result[j])
             /\ Find(Normal(fz.query), Lower(fz.result[i]))
                    < Find(Normal(fz.query), Lower(fz.result[j]))) => i < j

\* Three choices came back: the first contains the query earlier than the
\* other two, which differ and have one score
C11_Witness ==
    /\ fz.state = "done"
    /\ Normal(fz.query) # <<>>
    /\ Len(fz.result) = 3
    /\ fz.result[2] # fz.result[3]
    /\ Score(Normal(fz.query), fz.result[2])
        = Score(Normal(fz.query), fz.result[3])
    /\ HoldsQuery(fz.query, fz.result[1])
    /\ HoldsQuery(fz.query, fz.result[2])
    /\ Find(Normal(fz.query), Lower(fz.result[1]))
        < Find(Normal(fz.query), Lower(fz.result[2]))
    /\ fz.choices[1] # fz.result[1]

\* Every name of the catalog is in the drafted set d
AllDrafted(d) == \A i \in 1..Len(df) : df[i].name \in d

\* C12: once every player of the catalog is drafted the program has ended
\* and reads nothing more; the step that gets there is a commit, and the
\* history then holds as many picks as the catalog has distinct names.
C12_AllDraftedEnds ==
    [][ /\ ~AllDrafted(drafted)
        /\ AllDrafted(drafted') =>
            /\ pc' = "done"
            /\ ev'.op = "commit"
            /\ Len(history') = Cardinality({ df[i].name : i \in 1..Len(df) })
      ]_vars

\* The draft of a catalog with a repeated name has ended with fewer picks
\* than rows
C12_Witness ==
    /\ AllDrafted(drafted)
    /\ pc = "done"
    /\ ev.op = "commit"
    /\ Len(history) = 2
    /\ Len(df) = 3

\* C13: a player query without a match, and an empty line, leave the
\* registry, the drafted set and the history as they are and the player
\* prompt reads the next line.
C13_NoMatchKeepsState ==
    [][ (\/ ev'.op = "no_match"
         \/ (ev'.op = "blank" /\ ev'.how = "player")) =>
            /\ pc = "player"
            /\ pc' = "player"
            /\ teams' = teams
            /\ drafted' = drafted
            /\ history' = history
      ]_vars

\* A query found no match after a pick had been committed
C13_Witness ==
    /\ ev.op = "no_match"
    /\ pc = "player"
    /\ Len(history) = 1
    /\ teams # <<>>

\* C14: 'undo' with an empty history changes nothing: the registry, the
\* drafted set and the history stay as they are, nothing is raised and the
\* player prompt is shown again.
C14_UndoOnEmpty ==
    [][ (/\ pc = "player"
         /\ history = <<>>
         /\ \/ ev'.op = "undo"
            \/ (ev'.op = "crash" /\ ev'.how = "IndexError")) =>
            /\ ev'.op = "undo"
            /\ ev'.how = "empty"
            /\ pc' = "player"
            /\ teams' = teams
            /\ drafted' = drafted
            /\ history' = <<>>
      ]_vars

\* 'undo' found the history empty while a team was registered
C14_Witness ==
    /\ ev.op = "undo"
    /\ ev.how = "empty"
    /\ history = <<>>
    /\ teams # <<>>
    /\ pc = "player"

(***************************************************************************)
(* Properties of curses_select                                             *)
(***************************************************************************)
\* C15: in the interactive menu the highlighted index stays within the
\* options: up and down move it by one and do nothing at the first and at
\* the last option; Enter returns the highlighted option, q or Esc returns
\* nothing, and an empty option list returns nothing and shows no menu.
C15_MenuStaysInRange ==
    [][ /\ pc' = "menu" =>
            (0 <= menu'.idx /\ menu'.idx <= Len(menu'.options) - 1)
        /\ (pc = "menu" /\ ev'.op = "key" /\ ev'.how = "up") =>
            /\ pc' = "menu"
            /\ menu'.idx = (IF menu.idx = 0 THEN 0 ELSE menu.idx - 1)
        /\ (pc = "menu" /\ ev'.op = "key" /\ ev'.how = "down") =>
            /\ pc' = "menu"
            /\ menu'.idx = (IF menu.idx = Len(menu.options) - 1
                            THEN menu.idx
                            ELSE menu.idx + 1)
        /\ pc = "menu" => menu'.options = menu.options
        /\ (pc = "menu" /\ ev'.op = "return" /\ ev'.how = "enter") =>
            ev'.choice = <<menu.options[menu.idx + 1]>>
        /\ (pc = "menu" /\ ev'.op = "return" /\ ev'.how = "cancel") =>
            ev'.choice = <<>>
        /\ (pc = "call" /\ menu.options = <<>>) =>
            (pc' = "returned" /\ ev'.op = "return" /\ ev'.choice = <<>>)
      ]_vars

\* Enter has returned the last of three options, after two moves down
C15_Witness ==
    /\ pc = "returned"
    /\ ev.op = "return"
    /\ ev.how = "enter"
    /\ menu.idx = 2
    /\ Len(menu.options) = 3
    /\ ev.choice = <<menu.options[3]>>
    /\ menu.options[3] # menu.options[1]

\* The number a line of decimal digits denotes
RECURSIVE DecimalValue(_)
DecimalValue(s) ==
    IF s = <<>>
    THEN 0
    ELSE 10 * DecimalValue(SubSeq(s, 1, Len(s) - 1)) + DigitValue(s[Len(s)])

\* line, without the white space around it, is a whole number k with
\* 1 <= k <= n
SelectsOption(line, n) ==
    /\ Strip(line) # <<>>
    /\ \A i \in 1..Len(Strip(line)) : IsDecimalChar(Strip(line)[i])
    /\ 1 <= DecimalValue(Strip(line))
    /\ DecimalValue(Strip(line)) <= n

\* C16: in the numbered fallback a line that is a whole number k with
\* 1 <= k <= len(options) returns options[k-1]; every other line returns
\* nothing; no line raises an error.
C16_FallbackLine ==
    [][ (/\ pc = "fallback"
         /\ \/ (ev'.op = "return" /\ ev'.how = "line")
            \/ (ev'.op = "crash" /\ ev'.how = "ValueError")) =>
            /\ ev'.op = "return"
            /\ ev'.choice =
                IF SelectsOption(ev'.raw, Len(menu.options))
                THEN <<menu.options[DecimalValue(Strip(ev'.raw))]>>
                ELSE <<>>
      ]_vars

(***************************************************************************)
(* Properties of _need_level                                               *)
(***************************************************************************)
\* The base requirement of a position: QB 1, RB 2, WR 2, TE 1, D/ST 1, K 1,
\* and none for any other position
BaseRequirement(pos) ==
    IF pos \in {RB, WR} THEN 2
    ELSE IF pos \in {QB, TE, DST, KICKER} THEN 1
    ELSE 0

\* What a roster holds at RB, WR and TE beyond the base requirements
FlexOverflow(roster) ==
    Max(0, DictGet(roster, RB) - BaseRequirement(RB))
    + Max(0, DictGet(roster, WR) - BaseRequirement(WR))
    + Max(0, DictGet(roster, TE) - BaseRequirement(TE))

\* C19: _need_level is 'high' iff the roster holds fewer players at the
\* position than its base requirement, otherwise 'med' iff the position is
\* RB, WR or TE and min(1, overflow of RB+WR+TE) < 1, otherwise 'low'; a
\* position without a base requirement is always 'low'.  The position is
\* taken in upper case.
C19_NeedLevel ==
    ev.op = "need_level" =>
        ev.how =
            IF DictGet(teams[1].roster, Upper(ev.raw))
                < BaseRequirement(Upper(ev.raw))
            THEN "high"
            ELSE IF /\ Upper(ev.raw) \in {RB, WR, TE}
                    /\ Min(1, FlexOverflow(teams[1].roster)) < 1
            THEN "med"
            ELSE "low"

(***************************************************************************)
(* Properties of prompt_price                                              *)
(***************************************************************************)
\* The whole numbers among the price lines
EnteredNumbers ==
    { DecimalValue(Strip(line)) :
        line \in { l \in PriceLines :
                    /\ Strip(l) # <<>>
                    /\ \A i \in 1..Len(Strip(l)) :
                        IsDecimalChar(Strip(l)[i]) } }

\* C18: the price prompt ends in a cancel, in the proposed default or in the
\* whole number entered; every other line shows the prompt again, raises
\* nothing and leaves the draft as it is.
C18_PriceEntry ==
    [][ pc = "price" =>
            /\ ev'.op \in {"cancel", "price", "reprompt"}
            /\ ev'.op = "price" =>
                /\ pc' = "team"
                /\ price'[1] >= 0
                /\ price'[1] \in Range(adj) \cup EnteredNumbers
            /\ ev'.op = "reprompt" =>
                /\ pc' = "price"
                /\ teams' = teams
                /\ drafted' = drafted
                /\ history' = history
                /\ sel' = sel
                /\ adj' = adj
      ]_vars

(***************************************************************************)
(* Properties of the suggestion shown by main                              *)
(***************************************************************************)
\* C20: the suggestion shown for a nominated player depends on the drafted
\* set, the history and the teams' spent and roster only: it is the one the
\* same nomination gets when my team, which spends nothing and holds
\* nobody, is registered already, as it is after a cancelled nomination.
C20_SuggestionOfDraftState ==
    (ev.op = "nominate" /\ adj # <<>>) =>
        \E remaining \in SortedRemaining(df, nomStart.drafted,
                                         sel[1].position) :
            adj[1] = adjusted_salary(sel[1], df,
                                     EnsureMyTeam(nomStart.teams),
                                     nomStart.drafted, pos_initial_counts,
                                     remaining)

(***************************************************************************)
(* Properties of the rosters                                               *)
(***************************************************************************)
\* The history entries that give team tname a player at a position that
\* upper-cases to pos
PicksAt(h, tname, pos) ==
    { k \in 1..Len(h) : h[k].team = tname /\ Upper(h[k].pos) = pos }

\* C21: the count the need factor reads for the position of the nominated
\* player, the roster of my team at the upper-cased position, is the number
\* of history entries that give my team a player of that position.
C21_NeedReadsMyPicks ==
    (ev.op = "nominate" /\ adj # <<>>) =>
        DictGet(TeamOf(teams, MY_TEAM_NAME).roster, Upper(sel[1].position))
            = Cardinality(PicksAt(history, MY_TEAM_NAME,
                                  Upper(sel[1].position)))

\* The history entries that give team tname a player whose position is
\* spelled pos
PicksSpelled(h, tname, pos) ==
    { k \in 1..Len(h) : h[k].team = tname /\ h[k].pos = pos }

\* The position strings of the history
HistoryPositions(h) == { h[k].pos : k \in 1..Len(h) }

\* C22: for every team and position the roster count is the number of
\* history entries with that team and position, no roster key has the
\* count 0, and spent is exactly the sum of the team's history prices.
C22_RosterAndSpentAreHistory ==
    \A i \in 1..Len(teams) :
        /\ \A p \in DOMAIN teams[i].roster \cup HistoryPositions(history) :
            DictGet(teams[i].roster, p)
                = Cardinality(PicksSpelled(history, teams[i].name, p))
        /\ \A p \in DOMAIN teams[i].roster : teams[i].roster[p] # 0
        /\ teams[i].spent = HistoryPrice(history, teams[i].name)

\* An undo has emptied a team that the commit it reversed had created,
\* while another team still holds a paid pick
C22_Witness ==
    /\ ev.op = "undo"
    /\ ev.how = "popped"
    /\ \E i, j \in 1..Len(teams) :
        /\ teams[i].name # MY_TEAM_NAME
        /\ teams[i].spent = 0
        /\ teams[i].roster = <<>>
        /\ teams[j].spent > 0
        /\ \E p \in DOMAIN teams[j].roster : teams[j].roster[p] >= 1

(***************************************************************************)
(* Properties of undo after a commit                                       *)
(***************************************************************************)
\* C23: every committed pick can be undone: the prompt that follows a
\* commit, also the commit of the last undrafted player, accepts 'undo',
\* which removes that commit's history entry and makes its player
\* undrafted again.
C23_CommitCanBeUndone ==
    ev.op = "commit" =>
        ENABLED (\E line \in PlayerLines :
                    /\ PlayerUndo(line)
                    /\ ev'.how = "popped"
                    /\ history' = SubSeq(history, 1, Len(history) - 1)
                    /\ drafted' = drafted \ {history[Len(history)].player})

(***************************************************************************)
(* Properties of the window of the interactive menu                        *)
(***************************************************************************)
MaxHeight == 8

\* The terminal heights getmaxyx may report
Heights == 1..MaxHeight

\* The window that starts at top and shows visible rows lies within the n
\* options and holds the row idx
WindowHolds(idx, n, visible, top) ==
    /\ 0 <= top
    /\ top <= n - visible
    /\ top <= idx
    /\ idx < top + visible
    /\ idx \in Rendered(n, visible, top)

\* C24: whatever the number of options, the terminal height and the
\* highlighted index the key presses have led to, the window of the menu
\* satisfies 0 <= top <= len(options) - visible and top <= idx < top +
\* visible, and the highlighted row is one of the rows drawn.
C24_HighlightedRowIsDrawn ==
    pc = "menu" =>
        \A maxy \in Heights :
            WindowHolds(menu.idx, Len(menu.options),
                        MenuVisible(Len(menu.options), maxy),
                        MenuTop(menu.idx, Len(menu.options),
                                MenuVisible(Len(menu.options), maxy)))

\* The down key has led to the last of three options, and a terminal that
\* shows two rows has its window at the end of the list
C24_Witness ==
    /\ pc = "menu"
    /\ ev.op = "key"
    /\ ev.how = "down"
    /\ Len(menu.options) = 3
    /\ menu.idx = 2
    /\ \E maxy \in Heights :
        /\ MenuVisible(3, maxy) = 2
        /\ MenuTop(2, 3, 2) = 1
        /\ Rendered(3, 2, 1) = {1, 2}

====
